---- MODULE Spec2Model ----
(***************************************************************************)
(* Model of extract_citations.py: the text layout routines (justify_text,  *)
(* wrap_text_justified), the DOI resolution pipeline of main (cache load,  *)
(* legacy import, lookups with rate-limit backoff, cache save) and the     *)
(* two-column rendering of the output file.                                *)
(*                                                                         *)
(* A Python str is a sequence of one-character strings; a Python dict is   *)
(* a sequence of <<key, value>> pairs in insertion order; None is NoDoi.   *)
(***************************************************************************)
EXTENDS Integers, Sequences, FiniteSets, TLC

VARIABLES
    \* ---- text layout (wrap_text_justified / justify_text) ----
    text, width, justify, lines, wpc,
    \* ---- main: report, files, cache and lookups ----
    sections,       \* extract_sections_with_content(report_data): citations per section
    file,           \* doi_cache.json on disk
    legacy,         \* citation_text_map parsed from trialreport.txt
    doi_cache,      \* the in-memory cache
    pc,             \* position of main
    ret,            \* position main resumes at after save_doi_cache
    to_fetch, idx,  \* the fetch list and the loop counter i
    attempt,        \* loop variable of fetch_doi_from_semantic_scholar
    fetch_count, exit_code,
    refs,           \* the reference lines of the right column
    \* ---- main: the output file ----
    query, rsections, sorted_refs,  \* what the rendering starts from
    left_content, right_content,
    out,            \* the lines written to the output file
    rpc,
    \* ---- history of the run (observations, not program state) ----
    log,            \* responses to the requests of the current lookup
    sleeps,         \* backoff delays slept in the current lookup
    calls,          \* invocations of fetch_doi_from_semantic_scholar per id
    failed, capped, \* ids whose lookup ended in a failure / at the retry cap
    loaded, merged, \* the cache as loaded, and after the legacy merge
    lastSaved       \* file content after the last completed save

\* ------------------------------------------------------------------------
\* Bounds of the text-layout inputs
\* ------------------------------------------------------------------------
MaxTextLen == 7
MaxWidth == 6
Alphabet == {"a", "b", " "}

Texts == UNION {[1..n -> Alphabet] : n \in 0..MaxTextLen}

\* ------------------------------------------------------------------------
\* Python string helpers
\* ------------------------------------------------------------------------
Max(a, b) == IF a >= b THEN a ELSE b

\* ' ' * n
Spaces(n) == [i \in 1..n |-> " "]

\* str.ljust(width): pads on the right, never shortens
Ljust(s, w) == s \o Spaces(w - Len(s))

\* str.split(): the maximal runs of non-whitespace characters, in order
WordStarts(s) == {i \in DOMAIN s : s[i] # " " /\ (i = 1 \/ s[i - 1] = " ")}
WordEnd(s, i) == CHOOSE j \in i..Len(s) :
                    /\ \A k \in i..j : s[k] # " "
                    /\ (j = Len(s) \/ s[j + 1] = " ")
Split(s) ==
    LET starts == WordStarts(s)
        nth(k) == CHOOSE i \in starts : Cardinality({j \in starts : j < i}) = k - 1
    IN [k \in 1..Cardinality(starts) |-> SubSeq(s, nth(k), WordEnd(s, nth(k)))]

\* ' '.join(words)
RECURSIVE Join(_)
Join(ws) ==
    IF ws = <<>> THEN <<>>
    ELSE IF Len(ws) = 1 THEN ws[1]
    ELSE ws[1] \o <<" ">> \o Join(Tail(ws))

\* sum(len(word) for word in words)
RECURSIVE TotalChars(_)
TotalChars(ws) == IF ws = <<>> THEN 0 ELSE Len(Head(ws)) + TotalChars(Tail(ws))

\* ------------------------------------------------------------------------
\* justify_text
\* ------------------------------------------------------------------------
GapWidthExtraOffByOne(i, spaces_per_gap, extra_spaces) ==
    spaces_per_gap + (IF i <= extra_spaces THEN 1 ELSE 0)

\* ' ' * (spaces_per_gap + (1 if i < extra_spaces else 0)); i counts from 0
GapWidth(i, spaces_per_gap, extra_spaces) ==
    spaces_per_gap + (IF i < extra_spaces THEN 1 ELSE 0)

\* the for loop over enumerate(words[:-1]) followed by words[-1]
RECURSIVE JustifyLoop(_, _, _, _)
JustifyLoop(ws, i, spaces_per_gap, extra_spaces) ==
    IF Len(ws) = 1 THEN ws[1]
    ELSE ws[1] \o Spaces(GapWidth(i, spaces_per_gap, extra_spaces))
               \o JustifyLoop(Tail(ws), i + 1, spaces_per_gap, extra_spaces)

justify_text(t, w) ==
    LET words == Split(t) IN
    IF Len(words) <= 1 \/ Len(t) >= w
    THEN Ljust(t, w)
    ELSE LET total_chars == TotalChars(words)
             total_gaps == Len(words) - 1
             total_spaces_needed == w - total_chars
         IN JustifyLoop(words, 0, total_spaces_needed \div total_gaps,
                        total_spaces_needed % total_gaps)

\* ------------------------------------------------------------------------
\* wrap_text_justified
\* ------------------------------------------------------------------------
FitsNoSeparators(current_length, word_len, on_line, w) ==
    current_length + word_len <= w

\* current_length + word_len + len(current_line) <= width
Fits(current_length, word_len, on_line, w) ==
    current_length + word_len + on_line <= w

\* the for loop over words, then the flush of the last line
RECURSIVE WrapLoop(_, _, _, _, _, _)
WrapLoop(ws, ls, current_line, current_length, w, j) ==
    IF ws = <<>>
    THEN IF current_line # <<>> THEN Append(ls, Join(current_line)) ELSE ls
    ELSE LET word == Head(ws)
             word_len == Len(word)
         IN IF Fits(current_length, word_len, Len(current_line), w)
            THEN WrapLoop(Tail(ws), ls, Append(current_line, word),
                          current_length + word_len, w, j)
            ELSE LET line_text == Join(current_line)
                     flushed == IF current_line # <<>>
                                THEN Append(ls, IF j THEN justify_text(line_text, w)
                                                     ELSE line_text)
                                ELSE ls
                 IN WrapLoop(Tail(ws), flushed, <<word>>, word_len, w, j)

wrap_text_justified(t, w, j) ==
    LET ls == WrapLoop(Split(t), <<>>, <<>>, 0, w, j)
    IN IF ls # <<>> THEN ls ELSE << <<>> >>

\* ------------------------------------------------------------------------
\* Inputs of main: the report, the cache file, the legacy file, the service
\* ------------------------------------------------------------------------
MaxCitations == 2
SectionCounts == 0..2
CorpusIds == {"1", "2"}
\* display labels in ascending str order (the order sorted() uses)
DisplayOrder == <<"(A, 2020)", "(B, 2021)">>
DisplayNames == {DisplayOrder[i] : i \in DOMAIN DisplayOrder}
NoDoi == "None"
CachedValues == {NoDoi, "10.1/a"}      \* values found in doi_cache.json
LegacyDois == {"10.1/b"}               \* values found in trialreport.txt
ServiceDois == {"10.1/x"}              \* DOIs the lookup service returns
Outcomes == {"doi", "nodoi", "429", "fail"}

max_retries == 5
BackoffBase == 3

Citations == [corpus_id : CorpusIds, display : DisplayNames]
CitationLists == UNION {[1..n -> Citations] : n \in 0..MaxCitations}

RECURSIVE Flatten(_)
Flatten(ss) == IF ss = <<>> THEN <<>> ELSE Head(ss) \o Flatten(Tail(ss))

Reports == {r \in UNION {[1..k -> CitationLists] : k \in SectionCounts} :
                Len(Flatten(r)) <= MaxCitations}

\* ------------------------------------------------------------------------
\* dict as a sequence of <<key, value>> pairs in insertion order
\* ------------------------------------------------------------------------
Keys(d) == {d[i][1] : i \in DOMAIN d}
\* dict.get(k): None for a missing key
Get(d, k) == IF k \in Keys(d) THEN d[CHOOSE i \in DOMAIN d : d[i][1] = k][2] ELSE NoDoi
\* d[k] = v
Put(d, k, v) == IF k \in Keys(d)
                THEN [i \in DOMAIN d |-> IF d[i][1] = k THEN <<k, v>> ELSE d[i]]
                ELSE Append(d, <<k, v>>)

\* the dicts a cache file can hold (keys in a fixed order)
RECURSIVE DictsOver(_)
DictsOver(ks) ==
    IF ks = <<>> THEN {<<>>}
    ELSE LET rest == DictsOver(Tail(ks))
         IN rest \cup {<<<<Head(ks), v>>>> \o d : v \in CachedValues, d \in rest}

NoFile == [exists |-> FALSE, entries |-> <<>>, complete |-> FALSE]
EmptyFile == [exists |-> TRUE, entries |-> <<>>, complete |-> FALSE]
JsonFile(d) == [exists |-> TRUE, entries |-> d, complete |-> TRUE]
\* doi_cache.json at startup: missing, unparsable, or a JSON object
CacheFiles == {NoFile, EmptyFile} \cup {JsonFile(d) : d \in DictsOver(<<"1", "2">>)}

\* citation_text_map: display label -> DOI, {} when trialreport.txt is missing
LegacyMaps == UNION {[D -> LegacyDois] : D \in SUBSET DisplayNames}

\* ------------------------------------------------------------------------
\* load_doi_cache
\* ------------------------------------------------------------------------
load_doi_cache(f) ==
    IF f.exists
    THEN IF f.complete THEN f.entries ELSE <<>>    \* JSONDecodeError: start fresh
    ELSE <<>>

\* ------------------------------------------------------------------------
\* main: unique ids, legacy merge, partition
\* ------------------------------------------------------------------------
unique_corpus_ids(ss) == {Flatten(ss)[i].corpus_id : i \in DOMAIN Flatten(ss)}

ImportsAlways(c, map, cache) == c.display \in DOMAIN map

\* display_name in citation_text_map and corpus_id not in doi_cache
Imports(c, map, cache) == c.display \in DOMAIN map /\ c.corpus_id \notin Keys(cache)

\* the nested loop over sections and citations; returns <<cache, imported>>
RECURSIVE MergeLoop(_, _, _, _)
MergeLoop(cs, map, cache, imported) ==
    IF cs = <<>> THEN <<cache, imported>>
    ELSE LET c == Head(cs)
         IN IF Imports(c, map, cache)
            THEN MergeLoop(Tail(cs), map, Put(cache, c.corpus_id, map[c.display]),
                           imported + 1)
            ELSE MergeLoop(Tail(cs), map, cache, imported)

\* if citation_text_map: ... (an empty map skips the loop)
LegacyMerge(ss, map, cache) ==
    IF DOMAIN map # {} THEN MergeLoop(Flatten(ss), map, cache, 0) ELSE <<cache, 0>>

NeedsFetchUnlessDoi(id, cache) == Get(cache, id) = NoDoi

\* corpus_id in doi_cache -> cached, else appended to to_fetch
NeedsFetch(id, cache) == id \notin Keys(cache)

\* the orders a list built by iterating a set can have
Orders(S) == {s \in [1..Cardinality(S) -> S] : \A i, j \in DOMAIN s : i # j => s[i] # s[j]}

\* ------------------------------------------------------------------------
\* fetch_doi_from_semantic_scholar
\* ------------------------------------------------------------------------
RECURSIVE Pow2(_)
Pow2(n) == IF n = 0 THEN 1 ELSE 2 * Pow2(n - 1)

WaitTimeLinear(a) == (a + 1) * BackoffBase

\* wait_time = (2 ** attempt) * 3
wait_time(a) == Pow2(a) * BackoffBase

RetriesAnyFailure(outcome, a) == outcome \in {"429", "fail"} /\ a < max_retries - 1

\* status_code == 429 and attempt < max_retries - 1: sleep and continue
Retries(outcome, a) == outcome = "429" /\ a < max_retries - 1

RecordOnlyFound(cache, id, doi) == IF doi = NoDoi THEN cache ELSE Put(cache, id, doi)

\* doi_cache[corpus_id] = doi
RecordResult(cache, id, doi) == Put(cache, id, doi)

\* ------------------------------------------------------------------------
\* main: the reference list
\* ------------------------------------------------------------------------
KeepsLastSeen(name, all_references) == TRUE

\* if display_name not in all_references
KeepsFirstSeen(name, all_references) == name \notin Keys(all_references)

\* all_references, folded over every citation of every section
RECURSIVE ReferenceLoop(_, _, _)
ReferenceLoop(cs, cache, all_references) ==
    IF cs = <<>> THEN all_references
    ELSE LET c == Head(cs)
             doi == Get(cache, c.corpus_id)
         IN ReferenceLoop(Tail(cs), cache,
                IF KeepsFirstSeen(c.display, all_references)
                THEN Put(all_references, c.display, doi)
                ELSE all_references)

Rank(name) == CHOOSE i \in DOMAIN DisplayOrder : DisplayOrder[i] = name

\* sorted(all_references.items()): ascending by display name (the keys differ)
RECURSIVE Sorted(_)
Sorted(items) ==
    IF items = {} THEN <<>>
    ELSE LET least == CHOOSE x \in items : \A y \in items : Rank(x[1]) <= Rank(y[1])
         IN <<least>> \o Sorted(items \ {least})

Truthy(doi) == doi # NoDoi /\ doi # ""

\* f"{ref_name} -> {doi_url}"
RefLine(ref_name, ref_doi) ==
    IF Truthy(ref_doi)
    THEN <<ref_name, " -> ", "https://doi.org/", ref_doi>>
    ELSE <<ref_name, " -> ", "NO DOI FOUND">>

\* sorted_refs = sorted(all_references.items())
SortedRefs(ss, cache) ==
    LET all_references == ReferenceLoop(Flatten(ss), cache, <<>>)
    IN Sorted({all_references[i] : i \in DOMAIN all_references})

\* the lines the loop over sorted_refs appends to right_content
ReferenceLines(ss, cache) ==
    LET items == SortedRefs(ss, cache)
    IN [i \in DOMAIN items |-> RefLine(items[i][1], items[i][2])]

\* ------------------------------------------------------------------------
\* main: the two columns of the output file
\* ------------------------------------------------------------------------
left_width == 95
right_width == 80
PreviewRows == 5

\* c * n
Repeat(c, n) == [i \in 1..n |-> c]

\* "RESEARCH QUERY"
RESEARCH_QUERY ==
    <<"R", "E", "S", "E", "A", "R", "C", "H", " ", "Q", "U", "E",
      "R", "Y">>

\* "SECTION: "
SECTION_PREFIX ==
    <<"S", "E", "C", "T", "I", "O", "N", ":", " ">>

\* "TABLE: "
TABLE_PREFIX ==
    <<"T", "A", "B", "L", "E", ":", " ">>

\* "(Table data structure not fully populated)"
NOT_POPULATED ==
    <<"(", "T", "a", "b", "l", "e", " ", "d", "a", "t", "a", " ",
      "s", "t", "r", "u", "c", "t", "u", "r", "e", " ", "n", "o",
      "t", " ", "f", "u", "l", "l", "y", " ", "p", "o", "p", "u",
      "l", "a", "t", "e", "d", ")">>

\* "Table Contents:"
TABLE_CONTENTS ==
    <<"T", "a", "b", "l", "e", " ", "C", "o", "n", "t", "e", "n",
      "t", "s", ":">>

\* "  <bullet> ": the bullet U+2022, one character, is written "*"
ROW_PREFIX ==
    <<" ", " ", "*", " ">>

\* "  ... and "
MORE_PREFIX ==
    <<" ", " ", ".", ".", ".", " ", "a", "n", "d", " ">>

\* " more rows"
MORE_SUFFIX ==
    <<" ", "m", "o", "r", "e", " ", "r", "o", "w", "s">>

\* "REFERENCES (Alphabetical)"
REFERENCES_TITLE ==
    <<"R", "E", "F", "E", "R", "E", "N", "C", "E", "S", " ", "(",
      "A", "l", "p", "h", "a", "b", "e", "t", "i", "c", "a", "l",
      ")">>

\* " | "
DELIMITER ==
    <<" ", "|", " ">>

Digit(n) == <<"0", "1", "2", "3", "4", "5", "6", "7", "8", "9">>[n + 1]
\* str(n) for n >= 0
RECURSIVE Str(_)
Str(n) == IF n < 10 THEN <<Digit(n)>> ELSE Str(n \div 10) \o <<Digit(n % 10)>>

\* format_table; a table is [present, title, columns, rows], rows holding
\* each row's displayValue
RECURSIVE RowLines(_)
RowLines(rows) == IF rows = <<>> THEN <<>>
                  ELSE <<ROW_PREFIX \o Head(rows)>> \o RowLines(Tail(rows))

format_table(table_data, w) ==
    IF ~table_data.present THEN <<>>
    ELSE LET head == IF table_data.title # <<>>
                     THEN <<TABLE_PREFIX \o table_data.title, <<>> >>
                     ELSE <<>>
             rows == table_data.rows
         IN IF table_data.columns = 0 \/ rows = <<>>
            THEN head \o <<NOT_POPULATED>>
            ELSE head \o <<TABLE_CONTENTS>>
                      \o RowLines(SubSeq(rows, 1, IF Len(rows) < PreviewRows
                                                  THEN Len(rows) ELSE PreviewRows))
                      \o (IF Len(rows) > PreviewRows
                          THEN <<MORE_PREFIX \o Str(Len(rows) - PreviewRows) \o MORE_SUFFIX>>
                          ELSE <<>>)

\* the lines one section adds to left_content
SectionLines(s) ==
    <<Repeat("-", left_width), SECTION_PREFIX \o s.title, Repeat("-", left_width), <<>> >>
    \o (IF s.text # <<>>
        THEN wrap_text_justified(s.text, left_width - 1, TRUE) \o << <<>> >>
        ELSE <<>>)
    \o (IF s.table.present
        THEN << <<>> >> \o format_table(s.table, left_width - 1) \o << <<>> >>
        ELSE <<>>)

RECURSIVE AllSectionLines(_)
AllSectionLines(ss) == IF ss = <<>> THEN <<>>
                       ELSE SectionLines(Head(ss)) \o AllSectionLines(Tail(ss))

LeftContent(q, ss) ==
    <<Repeat("=", left_width), RESEARCH_QUERY, Repeat("=", left_width)>>
    \o wrap_text_justified(q, left_width - 1, FALSE)
    \o <<Repeat("=", left_width)>>
    \o AllSectionLines(ss)
    \o <<Repeat("=", left_width)>>

RightContent(sorted) ==
    <<Repeat("=", right_width), <<>>, Repeat("=", right_width), <<>>,
      Repeat("=", right_width), REFERENCES_TITLE, Repeat("=", right_width)>>
    \o [i \in DOMAIN sorted |-> RefLine(sorted[i][1], sorted[i][2])]
    \o <<Repeat("=", right_width)>>

\* the three parts f.write joins: left.ljust(left_width), " | ", right
OutputLine(i, left, right) ==
    <<Ljust(IF i <= Len(left) THEN left[i] ELSE <<>>, left_width),
      DELIMITER,
      IF i <= Len(right) THEN right[i] ELSE <<>> >>

\* ------------------------------------------------------------------------
\* Inputs of the rendering: query, extracted sections, sorted references
\* ------------------------------------------------------------------------
MaxSections == 1
Word(n) == Repeat("w", n)
Queries == {Join(<<Word(5), Word(3)>>), Join(<<Word(90), Word(96)>>)}
Titles == {Repeat("t", 5), Repeat("t", 87)}
SectionTexts == {<<>>, Join(<<Word(3), Word(2)>>), Join(<<Word(60), Word(20), Word(50)>>),
                 Word(96)}
NoTable == [present |-> FALSE, title |-> <<>>, columns |-> 0, rows |-> <<>>]
Tables == {NoTable,
           [present |-> TRUE, title |-> Word(4), columns |-> 0, rows |-> <<>>],
           [present |-> TRUE, title |-> Word(4), columns |-> 2,
            rows |-> <<Word(3), Word(100)>>],
           [present |-> TRUE, title |-> <<>>, columns |-> 1,
            rows |-> [k \in 1..6 |-> Word(k)]]}
RenderedSections == [title : Titles, text : SectionTexts, table : Tables]
SectionLists == UNION {[1..k -> RenderedSections] : k \in 0..MaxSections}
SortedRefLists == {<<>>,
                   <<<<"(A, 2020)", "10.1/x">>>>,
                   <<<<"(A, 2020)", "10.1/x">>, <<"(B, 2021)", NoDoi>>>>}

\* ------------------------------------------------------------------------
\* State
\* ------------------------------------------------------------------------
wrapVars == <<text, width, justify, lines, wpc>>
mainVars == <<sections, file, legacy, doi_cache, pc, ret, to_fetch, idx, attempt,
              fetch_count, exit_code, refs>>
histVars == <<log, sleeps, calls, failed, capped, loaded, merged, lastSaved>>
renderVars == <<query, rsections, sorted_refs, left_content, right_content, out, rpc>>
vars == <<wrapVars, mainVars, histVars, renderVars>>

WrapIdle ==
    /\ text = <<>> /\ width = 0 /\ justify = FALSE /\ lines = <<>> /\ wpc = "idle"

MainIdle ==
    /\ sections = <<>> /\ file = NoFile /\ legacy = <<>> /\ doi_cache = <<>>
    /\ pc = "idle" /\ ret = "none" /\ to_fetch = <<>> /\ idx = 0 /\ attempt = 0
    /\ fetch_count = 0 /\ exit_code = -1 /\ refs = <<>>
    /\ log = <<>> /\ sleeps = <<>> /\ calls = [id \in CorpusIds |-> 0]
    /\ failed = {} /\ capped = {} /\ loaded = <<>> /\ merged = <<>>
    /\ lastSaved = NoFile

RenderIdle ==
    /\ query = <<>> /\ rsections = <<>> /\ sorted_refs = <<>>
    /\ left_content = <<>> /\ right_content = <<>> /\ out = <<>> /\ rpc = "idle"

\* ------------------------------------------------------------------------
\* Specification of the text layout: any text, any width, either mode
\* ------------------------------------------------------------------------
InitWrap ==
    /\ text \in Texts
    /\ width \in 0..MaxWidth
    /\ justify \in BOOLEAN
    /\ lines = <<>>
    /\ wpc = "call"
    /\ MainIdle
    /\ RenderIdle

Wrap ==
    /\ wpc = "call"
    /\ lines' = wrap_text_justified(text, width, justify)
    /\ wpc' = "done"
    /\ UNCHANGED <<text, width, justify, mainVars, histVars, renderVars>>

NextWrap == Wrap

SpecWrap == InitWrap /\ [][NextWrap]_vars

\* ------------------------------------------------------------------------
\* Specification of main: one run over any report, cache file, legacy file
\* and any sequence of lookup responses, interruptible at every point
\* ------------------------------------------------------------------------
Init ==
    /\ WrapIdle
    /\ RenderIdle
    /\ sections \in Reports
    /\ file \in CacheFiles
    /\ legacy \in LegacyMaps
    /\ doi_cache = <<>>
    /\ pc = "load" /\ ret = "none"
    /\ to_fetch = <<>> /\ idx = 0 /\ attempt = 0
    /\ fetch_count = 0 /\ exit_code = -1 /\ refs = <<>>
    /\ log = <<>> /\ sleeps = <<>> /\ calls = [id \in CorpusIds |-> 0]
    /\ failed = {} /\ capped = {} /\ loaded = <<>> /\ merged = <<>>
    /\ lastSaved = file

\* load_doi_cache, parse_citation_text_file, the legacy merge and its save
LoadAndMerge ==
    /\ pc = "load"
    /\ LET cache0 == load_doi_cache(file)
           m == LegacyMerge(sections, legacy, cache0)
       IN /\ doi_cache' = m[1]
          /\ loaded' = cache0
          /\ merged' = m[1]
          /\ IF m[2] > 0
             THEN pc' = "save_open" /\ ret' = "partition"
             ELSE pc' = "partition" /\ ret' = ret
    /\ UNCHANGED <<wrapVars, renderVars, sections, file, legacy, to_fetch, idx, attempt, fetch_count,
                   exit_code, refs, log, sleeps, calls, failed, capped, lastSaved>>

\* save_doi_cache: open(cache_path, 'w') truncates the file
SaveOpen ==
    /\ pc = "save_open"
    /\ file' = [exists |-> TRUE, entries |-> <<>>, complete |-> FALSE]
    /\ pc' = "save_write"
    /\ UNCHANGED <<wrapVars, renderVars, sections, legacy, doi_cache, ret, to_fetch, idx, attempt,
                   fetch_count, exit_code, refs, histVars>>

\* save_doi_cache: json.dump writes the entries one after another
SaveWrite ==
    /\ pc = "save_write"
    /\ Len(file.entries) < Len(doi_cache)
    /\ file' = [file EXCEPT !.entries = Append(@, doi_cache[Len(@) + 1])]
    /\ UNCHANGED <<wrapVars, renderVars, sections, legacy, doi_cache, pc, ret, to_fetch, idx, attempt,
                   fetch_count, exit_code, refs, histVars>>

\* save_doi_cache: the closing brace is written and the file closed
SaveClose ==
    /\ pc = "save_write"
    /\ Len(file.entries) = Len(doi_cache)
    /\ file' = [file EXCEPT !.complete = TRUE]
    /\ lastSaved' = file'
    /\ pc' = ret
    /\ UNCHANGED <<wrapVars, renderVars, sections, legacy, doi_cache, ret, to_fetch, idx, attempt,
                   fetch_count, exit_code, refs, log, sleeps, calls, failed, capped,
                   loaded, merged>>

\* the loop over unique_corpus_ids that builds to_fetch
Partition ==
    /\ pc = "partition"
    /\ \E order \in Orders({id \in unique_corpus_ids(sections) : NeedsFetch(id, doi_cache)}) :
          /\ to_fetch' = order
          /\ pc' = IF order = <<>> THEN "fetched" ELSE "call"
    /\ idx' = 0
    /\ UNCHANGED <<wrapVars, renderVars, sections, file, legacy, doi_cache, ret, attempt, fetch_count,
                   exit_code, refs, histVars>>

\* the head of the for loop (i, corpus_id) and the entry of
\* fetch_doi_from_semantic_scholar(corpus_id), attempt 0
FetchCall ==
    /\ pc = "call"
    /\ idx' = idx + 1
    /\ calls' = [calls EXCEPT ![to_fetch[idx + 1]] = @ + 1]
    /\ attempt' = 0
    /\ log' = <<>>
    /\ sleeps' = <<>>
    /\ pc' = "request"
    /\ UNCHANGED <<wrapVars, renderVars, sections, file, legacy, doi_cache, ret, to_fetch,
                   fetch_count, exit_code, refs, failed, capped, loaded, merged, lastSaved>>

\* requests.get and its handlers; on a return, main stores the result
Request ==
    /\ pc = "request"
    /\ \E outcome \in Outcomes, d \in ServiceDois :
          LET corpus_id == to_fetch[idx]
              doi == IF outcome = "doi" THEN d ELSE NoDoi
          IN /\ log' = Append(log, outcome)
             /\ IF Retries(outcome, attempt)
                THEN /\ sleeps' = Append(sleeps, wait_time(attempt))
                     /\ pc' = "backoff"
                     /\ UNCHANGED <<doi_cache, fetch_count, failed, capped>>
                ELSE /\ doi_cache' = RecordResult(doi_cache, corpus_id, doi)
                     /\ fetch_count' = fetch_count + 1
                     /\ failed' = IF outcome = "fail" THEN failed \cup {corpus_id} ELSE failed
                     /\ capped' = IF outcome = "429" THEN capped \cup {corpus_id} ELSE capped
                     /\ pc' = IF idx < Len(to_fetch) THEN "pace" ELSE "fetched"
                     /\ UNCHANGED sleeps
    /\ UNCHANGED <<wrapVars, renderVars, sections, file, legacy, ret, to_fetch, idx, attempt,
                   exit_code, refs, calls, loaded, merged, lastSaved>>

\* time.sleep(wait_time) ends; continue with the next attempt
BackoffWake ==
    /\ pc = "backoff"
    /\ attempt' = attempt + 1
    /\ pc' = "request"
    /\ UNCHANGED <<wrapVars, renderVars, sections, file, legacy, doi_cache, ret, to_fetch, idx,
                   fetch_count, exit_code, refs, histVars>>

\* time.sleep(2.0) between two ids ends
Pace ==
    /\ pc = "pace"
    /\ pc' = "call"
    /\ UNCHANGED <<wrapVars, renderVars, sections, file, legacy, doi_cache, ret, to_fetch, idx, attempt,
                   fetch_count, exit_code, refs, histVars>>

\* if fetch_count > 0: save_doi_cache(doi_cache)
FinishFetching ==
    /\ pc = "fetched"
    /\ IF fetch_count > 0
       THEN pc' = "save_open" /\ ret' = "build_refs"
       ELSE pc' = "build_refs" /\ ret' = ret
    /\ UNCHANGED <<wrapVars, renderVars, sections, file, legacy, doi_cache, to_fetch, idx, attempt,
                   fetch_count, exit_code, refs, histVars>>

\* the reference list, the output file, sys.exit(0)
Render ==
    /\ pc = "build_refs"
    /\ refs' = ReferenceLines(sections, doi_cache)
    /\ exit_code' = 0
    /\ pc' = "exit"
    /\ UNCHANGED <<wrapVars, renderVars, sections, file, legacy, doi_cache, ret, to_fetch, idx, attempt,
                   fetch_count, histVars>>

\* an external interruption, at any point of the run
Interrupt ==
    /\ pc \notin {"exit", "interrupted", "idle"}
    /\ pc' = "interrupted"
    /\ exit_code' = 1
    /\ UNCHANGED <<wrapVars, renderVars, sections, file, legacy, doi_cache, ret, to_fetch, idx, attempt,
                   fetch_count, refs, histVars>>

Next ==
    \/ LoadAndMerge \/ SaveOpen \/ SaveWrite \/ SaveClose
    \/ Partition \/ FetchCall \/ Request \/ BackoffWake \/ Pace
    \/ FinishFetching \/ Render \/ Interrupt

Spec == Init /\ [][Next]_vars

\* ------------------------------------------------------------------------
\* Specification of the rendering: the with-block of main that writes the
\* output file, from any query, sections and sorted reference list
\* ------------------------------------------------------------------------
InitRender ==
    /\ WrapIdle
    /\ MainIdle
    /\ query \in Queries
    /\ rsections \in SectionLists
    /\ sorted_refs \in SortedRefLists
    /\ left_content = <<>> /\ right_content = <<>> /\ out = <<>>
    /\ rpc = "build"

\* left_content and right_content are built
BuildColumns ==
    /\ rpc = "build"
    /\ left_content' = LeftContent(query, rsections)
    /\ right_content' = RightContent(sorted_refs)
    /\ rpc' = "write"
    /\ UNCHANGED <<wrapVars, mainVars, histVars, query, rsections, sorted_refs, out>>

max_lines == Max(Len(left_content), Len(right_content))

\* one pass of: for i in range(max_lines): f.write(...)
WriteLine ==
    /\ rpc = "write"
    /\ Len(out) < max_lines
    /\ out' = Append(out, OutputLine(Len(out) + 1, left_content, right_content))
    /\ UNCHANGED <<wrapVars, mainVars, histVars, query, rsections, sorted_refs,
                   left_content, right_content, rpc>>

\* the loop ends and the with-block closes the file
CloseOutput ==
    /\ rpc = "write"
    /\ Len(out) = max_lines
    /\ rpc' = "written"
    /\ UNCHANGED <<wrapVars, mainVars, histVars, query, rsections, sorted_refs,
                   left_content, right_content, out>>

NextRender == BuildColumns \/ WriteLine \/ CloseOutput

SpecRender == InitRender /\ [][NextRender]_vars

\* ------------------------------------------------------------------------
\* Vocabulary of the layout claims
\* ------------------------------------------------------------------------
LongestWord(t) == LET ws == Split(t)
                  IN IF ws = <<>> THEN 0
                     ELSE CHOOSE m \in {Len(ws[i]) : i \in 1..Len(ws)} :
                              \A i \in 1..Len(ws) : Len(ws[i]) <= m

\* the words of the lines, read line by line
RECURSIVE WordsOfLines(_)
WordsOfLines(ls) == IF ls = <<>> THEN <<>>
                    ELSE Split(Head(ls)) \o WordsOfLines(Tail(ls))

\* re.sub(r'\s+', ' ', t): every whitespace run becomes one space
RECURSIVE CollapseWs(_)
CollapseWs(t) ==
    IF t = <<>> THEN <<>>
    ELSE IF Head(t) = " " /\ Len(t) > 1 /\ t[2] = " " THEN CollapseWs(Tail(t))
    ELSE <<Head(t)>> \o CollapseWs(Tail(t))

\* str.strip()
RECURSIVE LStrip(_)
LStrip(t) == IF t # <<>> /\ Head(t) = " " THEN LStrip(Tail(t)) ELSE t
RECURSIVE RStrip(_)
RStrip(t) == IF t # <<>> /\ t[Len(t)] = " " THEN RStrip(SubSeq(t, 1, Len(t) - 1)) ELSE t
Strip(t) == RStrip(LStrip(t))

\* the lengths of the whitespace runs between the words of a line
RECURSIVE GapRunsAcc(_, _, _)
GapRunsAcc(t, run, acc) ==
    IF t = <<>> THEN acc
    ELSE IF Head(t) = " " THEN GapRunsAcc(Tail(t), run + 1, acc)
    ELSE GapRunsAcc(Tail(t), 0, IF run > 0 THEN Append(acc, run) ELSE acc)
GapRuns(t) == GapRunsAcc(LStrip(t), 0, <<>>)

WrapDone(j) == wpc = "done" /\ justify = j /\ width >= LongestWord(text)

\* ------------------------------------------------------------------------
\* Claims about the text layout
\* ------------------------------------------------------------------------
LinesFitAndKeepWords ==
    /\ \A i \in DOMAIN lines : Len(lines[i]) <= width
    /\ WordsOfLines(lines) = Split(text)

\* C6 as stated: for a width at least the longest word, the unjustified lines
\* have at most W characters, carry exactly the words of T in order, and
\* rejoined with single spaces give T with whitespace runs collapsed.
C6_RejoinIsCollapsedText ==
    WrapDone(FALSE) =>
        /\ LinesFitAndKeepWords
        /\ Join(lines) = CollapseWs(text)

\* C6 as amended: as stated, except that the rejoined lines give T with
\* whitespace runs collapsed and leading and trailing whitespace removed.
C6_RejoinIsCollapsedStrippedText ==
    WrapDone(FALSE) =>
        /\ LinesFitAndKeepWords
        /\ Join(lines) = Strip(CollapseWs(text))

C6_Witness ==
    /\ WrapDone(FALSE)
    /\ Len(lines) >= 2
    /\ Len(Split(text)) >= 3
    /\ text # Join(lines)
    /\ text = Strip(text)

\* C7: for a width at least the longest word, every justified line but the
\* last has length exactly W: each of the word_count - 1 gaps holds
\* floor(spaces / gaps) spaces, the first (spaces mod gaps) gaps one more,
\* with spaces = W - total word characters; a single-word line is the word
\* followed by spaces up to W.
C7_JustifiedLinesFillWidth ==
    WrapDone(TRUE) =>
        \A i \in 1..(Len(lines) - 1) :
            LET line == lines[i]
                words == Split(line)
                gaps == Len(words) - 1
                spaces == width - TotalChars(words)
            IN /\ Len(line) = width
               /\ words # <<>>
               /\ IF gaps = 0
                  THEN line = words[1] \o Spaces(width - Len(words[1]))
                  ELSE /\ line[1] # " " /\ line[Len(line)] # " "
                       /\ GapRuns(line) =
                            [k \in 1..gaps |->
                                (spaces \div gaps)
                                  + (IF k - 1 < spaces % gaps THEN 1 ELSE 0)]

C7_Witness ==
    /\ WrapDone(TRUE)
    /\ \E i \in 1..(Len(lines) - 1) :
          LET words == Split(lines[i])
          IN /\ Len(words) >= 3
             /\ (width - TotalChars(words)) % (Len(words) - 1) # 0

\* ------------------------------------------------------------------------
\* Vocabulary of the claims about main
\* ------------------------------------------------------------------------
AllCitations == Flatten(sections)
CitedIds == unique_corpus_ids(sections)
CitedNames == {AllCitations[i].display : i \in DOMAIN AllCitations}
\* the first citation, in document order, that carries the display name
FirstCitation(name) ==
    AllCitations[CHOOSE i \in DOMAIN AllCitations :
                    /\ AllCitations[i].display = name
                    /\ \A j \in 1..(i - 1) : AllCitations[j].display # name]
IsPrefix(s, t) == Len(s) <= Len(t) /\ SubSeq(t, 1, Len(s)) = s
\* the lookup of the current id has had every request answered with HTTP 429
FiveRateLimits == log = [k \in 1..max_retries |-> "429"]
C2_CitedIdsAreCached ==
    pc = "build_refs" => \A id \in CitedIds : id \in Keys(doi_cache)

C2_Witness ==
    /\ pc = "build_refs"
    /\ \E id \in CitedIds : id \in failed /\ Get(doi_cache, id) = NoDoi
    /\ \E id \in CitedIds : id \in Keys(loaded)

\* C3: fetch_doi_from_semantic_scholar is invoked at most once per distinct
\* corpus_id, and never for an id that is a key of the cache after loading
\* and legacy merge, a key with a null value included.
C3_AtMostOneLookupPerId ==
    \A id \in CorpusIds :
        /\ calls[id] <= 1
        /\ id \in Keys(merged) => calls[id] = 0

C3_Witness ==
    /\ pc = "exit"
    /\ \E i, j \in DOMAIN AllCitations :
          /\ i # j
          /\ AllCitations[i].corpus_id = AllCitations[j].corpus_id
          /\ calls[AllCitations[i].corpus_id] = 1

\* C4: the legacy merge only fills gaps: every key of the cache loaded from
\* the file keeps its value (null included) and its place; the merge only
\* appends keys that were absent.
C4_MergeOnlyFillsGaps ==
    /\ IsPrefix(loaded, merged)
    /\ \A k \in Keys(loaded) : Get(merged, k) = Get(loaded, k)
    /\ \A i \in (Len(loaded) + 1)..Len(merged) : merged[i][1] \notin Keys(loaded)

C4_Witness ==
    /\ pc = "save_open" /\ ret = "partition"
    /\ merged # loaded
    /\ \E i \in DOMAIN AllCitations :
          /\ AllCitations[i].corpus_id \in Keys(loaded)
          /\ AllCitations[i].display \in DOMAIN legacy
          /\ legacy[AllCitations[i].display] # Get(loaded, AllCitations[i].corpus_id)

\* C5: after an interruption at any point, the cache file holds exactly the
\* content of the last completed save (or its content at startup): never an
\* empty, truncated or partially written file.
C5_InterruptKeepsLastSave ==
    pc = "interrupted" => file = lastSaved

\* C8: the reference list has one line per distinct display name, ascending
\* by display name; the DOI shown is the cache value of the corpus_id of the
\* first citation with that name in document order; the line is
\* 'name -> https://doi.org/<doi>' for a DOI and 'name -> NO DOI FOUND' for null.
C8_ReferenceList ==
    pc = "exit" =>
        /\ Len(refs) = Cardinality(CitedNames)
        /\ \A i, j \in DOMAIN refs : i < j => Rank(refs[i][1]) < Rank(refs[j][1])
        /\ \A i \in DOMAIN refs :
              LET name == refs[i][1]
              IN /\ name \in CitedNames
                 /\ LET v == Get(doi_cache, FirstCitation(name).corpus_id)
                    IN refs[i] = IF v = NoDoi
                                 THEN <<name, " -> ", "NO DOI FOUND">>
                                 ELSE <<name, " -> ", "https://doi.org/", v>>

C8_Witness ==
    /\ pc = "exit"
    /\ \E i, j \in DOMAIN AllCitations :
          /\ i < j
          /\ AllCitations[i].display = AllCitations[j].display
          /\ AllCitations[i].corpus_id # AllCitations[j].corpus_id
          /\ Get(doi_cache, AllCitations[i].corpus_id)
                # Get(doi_cache, AllCitations[j].corpus_id)

C9_LeftColumnFixedWidth ==
    rpc = "written" =>
        /\ Len(out) = Max(Len(left_content), Len(right_content))
        /\ \A i \in DOMAIN out :
              LET left == IF i <= Len(left_content) THEN left_content[i] ELSE <<>>
                  right == IF i <= Len(right_content) THEN right_content[i] ELSE <<>>
              IN /\ Len(out[i][1]) = left_width
                 /\ out[i][1] = SubSeq(Ljust(left, left_width), 1, left_width)
                 /\ out[i][2] = DELIMITER
                 /\ out[i][3] = right

====
